---- MODULE Spec2Model ----
(***************************************************************************)
(* Model of tools/potato_adb_capture.py: the adb-driven probe of the       *)
(* server rows of a VPN app.  Python strings are modelled as sequences of  *)
(* one-character strings, so that strip(), lower(), len() and the regular  *)
(* expressions are computed character by character.  None is the empty     *)
(* tuple (every non-None value it is compared with is a non-empty tuple).  *)
(***************************************************************************)
EXTENDS Integers, Sequences, FiniteSets, TLC

None == <<>>

(*************************** bounds of the model ***************************)
\* longest snapshot (number of elements) drawn in a run
MaxTree == 2
\* longest snapshot drawn when find_server_nodes is checked alone
MaxSelTree == 2
\* most lines of an interface listing drawn when get_vpn_ip is checked alone
MaxLines == 3

(**************************** string primitives ****************************)
LowerChars == <<"a","b","c","d","e","f","g","h","i","j","k","l","m",
                "n","o","p","q","r","s","t","u","v","w","x","y","z">>
UpperChars == <<"A","B","C","D","E","F","G","H","I","J","K","L","M",
                "N","O","P","Q","R","S","T","U","V","W","X","Y","Z">>
Digits == <<"0","1","2","3","4","5","6","7","8","9">>

\* the characters of \s
SpaceSet == {" ", "\t", "\n", "\r"}

\* the characters of \d
DigitSet == {Digits[i] : i \in 1..Len(Digits)}

\* str.isspace() on one character
IsSpace(ch) == ch \in SpaceSet

\* int() of one decimal digit
DigitVal(ch) == (CHOOSE i \in 1..Len(Digits) : Digits[i] = ch) - 1

\* str.lower() on one character
lower_ch(ch) ==
    IF \E i \in 1..Len(UpperChars) : UpperChars[i] = ch
    THEN LowerChars[CHOOSE i \in 1..Len(UpperChars) : UpperChars[i] = ch]
    ELSE ch

\* str.lower()
lower(s) == [i \in 1..Len(s) |-> lower_ch(s[i])]

RECURSIVE lstrip(_)
lstrip(s) == IF s # <<>> /\ IsSpace(Head(s)) THEN lstrip(Tail(s)) ELSE s

RECURSIVE rstrip(_)
rstrip(s) ==
    IF s # <<>> /\ IsSpace(s[Len(s)]) THEN rstrip(SubSeq(s, 1, Len(s) - 1)) ELSE s

\* str.strip()
strip(s) == rstrip(lstrip(s))

\* int() of a run of decimal digits
int(s) ==
    LET F[k \in 0..Len(s)] == IF k = 0 THEN 0 ELSE 10 * F[k - 1] + DigitVal(s[k])
    IN  F[Len(s)]

\* t occurs in s at position i
MatchAt(s, t, i) == i + Len(t) - 1 <= Len(s) /\ SubSeq(s, i, i + Len(t) - 1) = t

\* t is a substring of s
Contains(s, t) == \E i \in 1..Len(s) : MatchAt(s, t, i)

\* length of the longest run starting at s[i] of characters in the class:
\* the members of chars when member is TRUE, the non-members otherwise
RECURSIVE RunLen(_, _, _, _)
RunLen(s, i, chars, member) ==
    IF i <= Len(s) /\ ((s[i] \in chars) = member)
    THEN 1 + RunLen(s, i + 1, chars, member)
    ELSE 0

\* str.splitlines(): lines end at "\n"; a last line without one is kept
RECURSIVE splitlines(_)
splitlines(s) ==
    IF s = <<>> THEN <<>>
    ELSE LET n == RunLen(s, 1, {"\n"}, FALSE)
         IN  <<SubSeq(s, 1, n)>> \o splitlines(SubSeq(s, n + 2, Len(s)))

\* dict.get(key, default)
get(attrib, key, default) == IF key \in DOMAIN attrib THEN attrib[key] ELSE default

(***************************** program constants ***************************)
CONNECT_TAP_COORDS == <<540, 1700>>
SWIPE_FROM == <<540, 1600>>
SWIPE_TO == <<540, 500>>
SWIPE_DURATION_MS == 500
\* upper limit of len(text) in find_server_nodes
MaxTextLen == 40

s_true == <<"t","r","u","e">>
s_false == <<"f","a","l","s","e">>

\* the button-like words find_server_nodes filters out
Stoplist == {
    <<"c","o","n","n","e","c","t">>,
    <<"d","i","s","c","o","n","n","e","c","t">>,
    <<"r","e","f","r","e","s","h">>,
    <<"s","e","t","t","i","n","g","s">>,
    <<"b","a","c","k">>,
    <<"s","e","a","r","c","h">>,
    <<"o","k">>,
    <<"c","a","n","c","e","l">> }

\* the interface-name tokens of get_vpn_ip's pattern (tun|tap|ppp|vpn|wg|utun)
VpnTokens == {
    <<"t","u","n">>, <<"t","a","p">>, <<"p","p","p">>,
    <<"v","p","n">>, <<"w","g">>, <<"u","t","u","n">> }

(****************************** find_server_nodes **************************)
\* A snapshot is the sequence of its elements in document order, each
\* [tag, attrib]; root.iter('node') visits the elements tagged "node".

\* a plausible slip: the length test excludes the limit itself
is_server_text_exclusive(clickable, text) ==
    /\ clickable = s_true
    /\ text # <<>>
    /\ 1 <= Len(text)
    /\ Len(text) < MaxTextLen
    /\ lower(text) \notin Stoplist

\* lines 45-48: the test on clickable and on the stripped text
is_server_text(clickable, text) ==
    /\ clickable = s_true
    /\ text # <<>>
    /\ 1 <= Len(text)
    /\ Len(text) <= MaxTextLen
    /\ lower(text) \notin Stoplist

RECURSIVE iter_nodes(_, _)
iter_nodes(elems, nodes) ==
    IF elems = <<>> THEN nodes
    ELSE LET node == Head(elems)
             clickable == get(node.attrib, "clickable", s_false)
             text == strip(get(node.attrib, "text", <<>>))
             bounds == strip(get(node.attrib, "bounds", <<>>))
         IN  IF node.tag = "node" /\ is_server_text(clickable, text)
             THEN iter_nodes(Tail(elems), Append(nodes, <<text, bounds>>))
             ELSE iter_nodes(Tail(elems), nodes)

find_server_nodes(tree) == iter_nodes(tree, <<>>)

(******************************* bounds_center *****************************)
\* re.findall(r'\d+', s): the maximal runs of digits, left to right
\* (a run starts at a digit that no digit precedes; run k is the one with
\* k - 1 starts before its own)
findall_digits(s) ==
    LET starts == {i \in 1..Len(s) :
                      s[i] \in DigitSet /\ (i = 1 \/ s[i - 1] \notin DigitSet)}
        run(i) == SubSeq(s, i, i + RunLen(s, i, DigitSet, TRUE) - 1)
    IN  [k \in 1..Cardinality(starts) |->
            CHOOSE r \in {run(i) : i \in {j \in starts :
                              Cardinality({h \in starts : h < j}) = k - 1}} : TRUE]

bounds_center(bounds) ==
    LET m == findall_digits(bounds)
    IN  IF Len(m) >= 4
        THEN LET x1 == int(m[1])
                 y1 == int(m[2])
                 x2 == int(m[3])
                 y2 == int(m[4])
             IN  <<(x1 + x2) \div 2, (y1 + y2) \div 2>>
        ELSE None

(********************************* get_vpn_ip ******************************)
\* re.match(r'^\d+:\s+([^:]+):', line): group 1, or None without a match.
\* \s+ and [^:]+ are greedy; when the blanks are directly followed by ":",
\* the engine backtracks and gives the last blank to the group.
m_iface(line) ==
    LET d == RunLen(line, 1, DigitSet, TRUE)
        w == RunLen(line, d + 2, SpaceSet, TRUE)
        p == d + 2 + w
        g == RunLen(line, p, {":"}, FALSE)
    IN  IF d >= 1 /\ d + 1 <= Len(line) /\ line[d + 1] = ":" /\ w >= 1
        THEN IF g >= 1
             THEN IF p + g <= Len(line) THEN SubSeq(line, p, p + g - 1) ELSE None
             ELSE IF p <= Len(line) /\ w >= 2 THEN <<line[p - 1]>> ELSE None
        ELSE None

s_inet == <<"i","n","e","t">>

\* the characters of [0-9\.]
AddrSet == DigitSet \cup {"."}

\* re.search(r'inet\s+([0-9\.]+)/\d+', line) matches with "inet" at position i
InetAt(line, i) ==
    LET w == RunLen(line, i + 4, SpaceSet, TRUE)
        a == RunLen(line, i + 4 + w, AddrSet, TRUE)
        q == i + 4 + w + a
    IN  /\ MatchAt(line, s_inet, i)
        /\ w >= 1
        /\ a >= 1
        /\ q <= Len(line)
        /\ line[q] = "/"
        /\ RunLen(line, q + 1, DigitSet, TRUE) >= 1

\* re.search(r'inet\s+([0-9\.]+)/\d+', line): group 1 of the leftmost match,
\* or None without a match
m_ip(line) ==
    IF \E i \in 1..Len(line) : InetAt(line, i)
    THEN LET i == CHOOSE j \in 1..Len(line) :
                      InetAt(line, j) /\ \A k \in 1..(j - 1) : ~InetAt(line, k)
             w == RunLen(line, i + 4, SpaceSet, TRUE)
             a == RunLen(line, i + 4 + w, AddrSet, TRUE)
         IN  SubSeq(line, i + 4 + w, i + 4 + w + a - 1)
    ELSE None

\* re.search(r'(tun|tap|ppp|vpn|wg|utun)', name, re.I)
is_vpn_name(name) == \E t \in VpnTokens : Contains(lower(name), t)

\* the loop of get_vpn_ip over out.splitlines()
RECURSIVE scan_lines(_, _)
scan_lines(lines, cur_iface) ==
    IF lines = <<>> THEN None
    ELSE LET line == strip(Head(lines))
         IN  IF m_iface(line) # None
             THEN scan_lines(Tail(lines), m_iface(line))
             ELSE IF m_ip(line) # None /\ cur_iface # None /\ is_vpn_name(cur_iface)
                  THEN <<cur_iface, m_ip(line)>>
                  ELSE scan_lines(Tail(lines), cur_iface)

\* a plausible slip: an interface that is no VPN does not replace cur_iface
RECURSIVE scan_lines_sticky(_, _)
scan_lines_sticky(lines, cur_iface) ==
    IF lines = <<>> THEN None
    ELSE LET line == strip(Head(lines))
         IN  IF m_iface(line) # None
             THEN scan_lines_sticky(Tail(lines),
                      IF is_vpn_name(m_iface(line)) THEN m_iface(line) ELSE cur_iface)
             ELSE IF m_ip(line) # None /\ cur_iface # None /\ is_vpn_name(cur_iface)
                  THEN <<cur_iface, m_ip(line)>>
                  ELSE scan_lines_sticky(Tail(lines), cur_iface)

get_vpn_ip_sticky(out, code) ==
    IF code # 0 THEN None ELSE scan_lines_sticky(splitlines(out), None)

\* a plausible slip: the return code of adb is not looked at
get_vpn_ip_ignore_code(out, code) == scan_lines(splitlines(out), None)

\* get_vpn_ip, given what adb(["shell","ip","-4","addr","show"]) returned
get_vpn_ip(out, code) ==
    IF code # 0 THEN None ELSE scan_lines(splitlines(out), None)

(********************************** state **********************************)
VARIABLES
    pc,         \* position of main
    csv,        \* rows of OUTFILE, the header included
    adb_calls,  \* the adb commands issued so far, in order
    rc,         \* return code of the last adb call
    out,        \* stdout of the last adb call whose output is read
    tree,       \* the last parsed snapshot
    nodes,      \* the list find_server_nodes returned
    parses,     \* outcome of every ET.parse so far, in order
    idx,        \* position of the loop of main in nodes
    seen,       \* labels the loop has met
    selected,   \* history: the items that passed the seen test, in order
    center,     \* the point bounds_center returned
    vip         \* the pair get_vpn_ip returned

vars ==
    <<pc, csv, adb_calls, rc, out, tree, nodes, parses, idx, seen, selected, center, vip>>

\* exit codes an adb call may return
ExitCodes == {0, 1}

(***************************** inputs of a run *****************************)
Node(clickable, text, bounds) ==
    [tag |-> "node", attrib |-> [clickable |-> clickable, text |-> text, bounds |-> bounds]]

s_A == <<"A">>
s_B == <<"B">>
s_Connect == <<"C","o","n","n","e","c","t">>
b_10_20_30_60 == <<"[","1","0",",","2","0","]","[","3","0",",","6","0","]">>
b_0_100_200_150 ==
    <<"[","0",",","1","0","0","]","[","2","0","0",",","1","5","0","]">>
b_neg == <<"[","-","1","0",",","2","0","]","[","3","0",",","6","0","]">>
b_short == <<"[","1",",","2","]","[","3">>

\* the elements a snapshot of a run is made of
RunElems == {
    [tag |-> "hierarchy", attrib |-> [rotation |-> <<"0">>]],
    Node(s_true, s_A, b_10_20_30_60),
    Node(s_true, <<" ">> \o s_A \o <<" ">>, b_0_100_200_150),
    Node(s_true, s_A, <<>>),
    Node(s_true, s_B, b_short),
    Node(s_true, s_B, b_neg),
    Node(s_true, s_Connect, b_10_20_30_60),
    Node(s_false, s_B, b_0_100_200_150) }

SeqsUpTo(S, n) == UNION {[1..k -> S] : k \in 0..n}

RunTrees == SeqsUpTo(RunElems, MaxTree)

Join(lines) ==
    LET F[k \in 0..Len(lines)] ==
            IF k = 0 THEN <<>> ELSE F[k - 1] \o lines[k] \o <<"\n">>
    IN  F[Len(lines)]

l_hdr_lo == <<"1",":"," ","l","o",":"," ","<","U","P",">">>
l_hdr_wlan == <<"2",":"," ","w","l","a","n","0",":"," ","<","U","P",">">>
l_hdr_tun == <<"3",":"," ","t","u","n","0",":"," ","<","U","P",">">>
l_inet_127 == <<" "," ","i","n","e","t"," ","1","2","7",".","0",".","0",".","1","/","8">>
l_inet_10 == <<" "," ","i","n","e","t"," ","1","0",".","8",".","0",".","2","/","2","4">>

\* the interface listings the device returns in a run
RunListings == {
    <<>>,
    Join(<<l_hdr_lo, l_inet_127, l_hdr_wlan, l_inet_10>>),
    Join(<<l_hdr_lo, l_inet_127, l_hdr_tun, l_inet_10>>) }

(********************************* the log *********************************)
Header == <<"timestamp", "server_label", "iface", "ip", "note">>

\* a plausible slip: the pair is not unpacked (lines 83-84 missing)
append_row_no_unpack(label, iface_ip, note) ==
    [server_label |-> label, iface |-> <<>>, ip |-> <<>>, note |-> note]

\* the row append_row writes; the timestamp is the clock's, not modelled
append_row(label, iface_ip, note) ==
    LET iface == IF iface_ip # None THEN iface_ip[1] ELSE <<>>
        ip == IF iface_ip # None THEN iface_ip[2] ELSE <<>>
    IN  [server_label |-> label, iface |-> iface, ip |-> ip, note |-> note]

(******************************* adb commands ******************************)
Cmd(op, args) == [op |-> op, args |-> args]

cmd_dump == Cmd("uiautomator dump", <<>>)
cmd_pull == Cmd("pull", <<>>)
cmd_ip_addr == Cmd("ip -4 addr show", <<>>)
cmd_back == Cmd("input keyevent", <<4>>)
tap_coord(x, y) == Cmd("input tap", <<x, y>>)
swipe ==
    Cmd("input swipe",
        <<SWIPE_FROM[1], SWIPE_FROM[2], SWIPE_TO[1], SWIPE_TO[2], SWIPE_DURATION_MS>>)

\* adb(cmd) for each command of cmds in turn; the last return code is kept
adb(cmds) ==
    /\ adb_calls' = adb_calls \o cmds
    /\ rc' \in ExitCodes

(*********************************** main **********************************)
Init ==
    /\ pc = "start"
    /\ csv = <<>>
    /\ adb_calls = <<>>
    /\ rc = 0
    /\ out = <<>>
    /\ tree = <<>>
    /\ nodes = <<>>
    /\ parses = <<>>
    /\ idx = 0
    /\ seen = {}
    /\ selected = <<>>
    /\ center = None
    /\ vip = None

\* line 97: write_header()
write_header ==
    /\ pc = "start"
    /\ csv' = <<Header>>
    /\ pc' = "dump1"
    /\ UNCHANGED <<adb_calls, rc, out, tree, nodes, parses, idx, seen, selected, center, vip>>

\* dump_ui() followed by find_server_nodes(tree): ET.parse either raises
\* (the exception leaves main) or returns the snapshot the device wrote
dump_ui(next_pc_empty, next_pc_found) ==
    /\ adb(<<cmd_dump, cmd_pull>>)
    /\ \/ /\ parses' = Append(parses, [ok |-> FALSE, n |-> 0])
          /\ pc' = "crashed"
          /\ UNCHANGED <<tree, nodes>>
       \/ \E t \in RunTrees :
              /\ tree' = t
              /\ nodes' = find_server_nodes(t)
              /\ parses' = Append(parses, [ok |-> TRUE, n |-> Len(nodes')])
              /\ pc' = IF nodes' = <<>> THEN next_pc_empty ELSE next_pc_found
    /\ UNCHANGED <<csv, out, idx, seen, selected, center, vip>>

\* lines 99-101: the initial dump
main_initial_dump ==
    /\ pc = "dump1"
    /\ dump_ui("swipe", "check")

\* line 103: swipe()
main_swipe ==
    /\ pc = "swipe"
    /\ adb(<<swipe>>)
    /\ pc' = "dump2"
    /\ UNCHANGED <<csv, out, tree, nodes, parses, idx, seen, selected, center, vip>>

\* a plausible slip: an empty second dump swipes again
main_second_dump_retry ==
    /\ pc = "dump2"
    /\ dump_ui("swipe", "check")

\* lines 105-106: the dump after the swipe
main_second_dump ==
    /\ pc = "dump2"
    /\ dump_ui("check", "check")

\* a plausible slip: the loop is entered without the test of line 107
main_check_no_return ==
    /\ pc = "check"
    /\ pc' = "loop" /\ idx' = 1 /\ seen' = {}
    /\ UNCHANGED <<csv, adb_calls, rc, out, tree, nodes, parses, selected, center, vip>>

\* lines 107-111: return without candidates, else enter the loop
main_check ==
    /\ pc = "check"
    /\ IF nodes = <<>>
       THEN pc' = "returned" /\ UNCHANGED <<idx, seen>>
       ELSE pc' = "loop" /\ idx' = 1 /\ seen' = {}
    /\ UNCHANGED <<csv, adb_calls, rc, out, tree, nodes, parses, selected, center, vip>>

\* str(n) for n >= 0
RECURSIVE str(_)
str(n) == IF n < 10 THEN <<Digits[n + 1]>> ELSE str(n \div 10) \o <<Digits[(n % 10) + 1]>>

\* line 113: label = txt or f"item_{idx}"
label_of(txt, i) == IF txt # <<>> THEN txt ELSE <<"i","t","e","m","_">> \o str(i)

\* the label of the candidate the loop is at
label == label_of(nodes[idx][1], idx)

\* a plausible slip: the seen test of lines 114-115 is missing
main_loop_head_no_seen ==
    /\ pc = "loop"
    /\ IF idx > Len(nodes)
       THEN /\ pc' = "done"
            /\ UNCHANGED <<idx, seen, selected, center>>
       ELSE /\ seen' = seen \cup {label}
            /\ selected' = Append(selected, <<label, nodes[idx][2]>>)
            /\ center' = bounds_center(nodes[idx][2])
            /\ IF center' = None
               THEN idx' = idx + 1 /\ UNCHANGED pc
               ELSE pc' = "tap" /\ UNCHANGED idx
    /\ UNCHANGED <<csv, adb_calls, rc, out, tree, nodes, parses, vip>>

\* a plausible slip: the label is put in seen only once its bounds resolved
main_loop_head_seen_late ==
    /\ pc = "loop"
    /\ IF idx > Len(nodes)
       THEN /\ pc' = "done"
            /\ UNCHANGED <<idx, seen, selected, center>>
       ELSE IF label \in seen
            THEN /\ idx' = idx + 1
                 /\ UNCHANGED <<pc, seen, selected, center>>
            ELSE /\ selected' = Append(selected, <<label, nodes[idx][2]>>)
                 /\ center' = bounds_center(nodes[idx][2])
                 /\ IF center' = None
                    THEN idx' = idx + 1 /\ UNCHANGED <<pc, seen>>
                    ELSE pc' = "tap" /\ seen' = seen \cup {label} /\ UNCHANGED idx
    /\ UNCHANGED <<csv, adb_calls, rc, out, tree, nodes, parses, vip>>

\* a plausible slip: bounds without a center end the loop (break for continue)
main_loop_head_abort ==
    /\ pc = "loop"
    /\ IF idx > Len(nodes)
       THEN /\ pc' = "done"
            /\ UNCHANGED <<idx, seen, selected, center>>
       ELSE IF label \in seen
            THEN /\ idx' = idx + 1
                 /\ UNCHANGED <<pc, seen, selected, center>>
            ELSE /\ seen' = seen \cup {label}
                 /\ selected' = Append(selected, <<label, nodes[idx][2]>>)
                 /\ center' = bounds_center(nodes[idx][2])
                 /\ IF center' = None
                    THEN pc' = "done" /\ UNCHANGED idx
                    ELSE pc' = "tap" /\ UNCHANGED idx
    /\ UNCHANGED <<csv, adb_calls, rc, out, tree, nodes, parses, vip>>

\* lines 112-119: next item; skip a label already seen or bounds without a center
main_loop_head ==
    /\ pc = "loop"
    /\ IF idx > Len(nodes)
       THEN /\ pc' = "done"
            /\ UNCHANGED <<idx, seen, selected, center>>
       ELSE IF label \in seen
            THEN /\ idx' = idx + 1
                 /\ UNCHANGED <<pc, seen, selected, center>>
            ELSE /\ seen' = seen \cup {label}
                 /\ selected' = Append(selected, <<label, nodes[idx][2]>>)
                 /\ center' = bounds_center(nodes[idx][2])
                 /\ IF center' = None
                    THEN idx' = idx + 1 /\ UNCHANGED pc
                    ELSE pc' = "tap" /\ UNCHANGED idx
    /\ UNCHANGED <<csv, adb_calls, rc, out, tree, nodes, parses, vip>>

\* a plausible slip: a tap that returns a non-zero code is issued once more
main_tap_candidate_retry ==
    /\ pc = "tap"
    /\ rc' \in ExitCodes
    /\ adb_calls' = IF rc' # 0
                    THEN adb_calls \o <<tap_coord(center[1], center[2]),
                                        tap_coord(center[1], center[2])>>
                    ELSE Append(adb_calls, tap_coord(center[1], center[2]))
    /\ pc' = "connect"
    /\ UNCHANGED <<csv, out, tree, nodes, parses, idx, seen, selected, center, vip>>

\* line 122: tap_coord(x, y)
main_tap_candidate ==
    /\ pc = "tap"
    /\ adb(<<tap_coord(center[1], center[2])>>)
    /\ pc' = "connect"
    /\ UNCHANGED <<csv, out, tree, nodes, parses, idx, seen, selected, center, vip>>

\* line 126: tap_coord(*CONNECT_TAP_COORDS)
main_tap_connect ==
    /\ pc = "connect"
    /\ adb(<<tap_coord(CONNECT_TAP_COORDS[1], CONNECT_TAP_COORDS[2])>>)
    /\ pc' = "observe"
    /\ UNCHANGED <<csv, out, tree, nodes, parses, idx, seen, selected, center, vip>>

\* a plausible slip: the file is written anew, header first, for every row
main_observe_rewrite ==
    /\ pc = "observe"
    /\ adb(<<cmd_ip_addr>>)
    /\ out' \in RunListings
    /\ vip' = get_vpn_ip(out', rc')
    /\ csv' = IF vip' # None
              THEN <<Header, append_row(label, vip', "ok")>>
              ELSE <<Header, append_row(label, None, "no_ip")>>
    /\ pc' = "disconnect"
    /\ UNCHANGED <<tree, nodes, parses, idx, seen, selected, center>>

\* a plausible slip: the new row is written above the earlier rows
main_observe_prepend ==
    /\ pc = "observe"
    /\ adb(<<cmd_ip_addr>>)
    /\ out' \in RunListings
    /\ vip' = get_vpn_ip(out', rc')
    /\ csv' = IF vip' # None
              THEN <<Header, append_row(label, vip', "ok")>> \o Tail(csv)
              ELSE <<Header, append_row(label, None, "no_ip")>> \o Tail(csv)
    /\ pc' = "disconnect"
    /\ UNCHANGED <<tree, nodes, parses, idx, seen, selected, center>>

\* lines 128-134: vip = get_vpn_ip(), then the row of the candidate
main_observe ==
    /\ pc = "observe"
    /\ adb(<<cmd_ip_addr>>)
    /\ out' \in RunListings
    /\ vip' = get_vpn_ip(out', rc')
    /\ csv' = IF vip' # None
              THEN Append(csv, append_row(label, vip', "ok"))
              ELSE Append(csv, append_row(label, None, "no_ip"))
    /\ pc' = "disconnect"
    /\ UNCHANGED <<tree, nodes, parses, idx, seen, selected, center>>

\* a plausible slip: the tap of line 136 is missing
main_tap_disconnect_missing ==
    /\ pc = "disconnect"
    /\ pc' = "back"
    /\ UNCHANGED <<csv, adb_calls, rc, out, tree, nodes, parses, idx, seen, selected, center, vip>>

\* a plausible slip: the second tap goes to the row of the candidate again
main_tap_disconnect_at_center ==
    /\ pc = "disconnect"
    /\ adb(<<tap_coord(center[1], center[2])>>)
    /\ pc' = "back"
    /\ UNCHANGED <<csv, out, tree, nodes, parses, idx, seen, selected, center, vip>>

\* line 136: tap_coord(*CONNECT_TAP_COORDS)
main_tap_disconnect ==
    /\ pc = "disconnect"
    /\ adb(<<tap_coord(CONNECT_TAP_COORDS[1], CONNECT_TAP_COORDS[2])>>)
    /\ pc' = "back"
    /\ UNCHANGED <<csv, out, tree, nodes, parses, idx, seen, selected, center, vip>>

\* line 139: adb keyevent 4, then the next item
main_back ==
    /\ pc = "back"
    /\ adb(<<cmd_back>>)
    /\ idx' = idx + 1
    /\ pc' = "loop"
    /\ UNCHANGED <<csv, out, tree, nodes, parses, seen, selected, center, vip>>

Next ==
    \/ write_header
    \/ main_initial_dump
    \/ main_swipe
    \/ main_second_dump
    \/ main_check
    \/ main_loop_head
    \/ main_tap_candidate
    \/ main_tap_connect
    \/ main_observe
    \/ main_tap_disconnect
    \/ main_back

Spec == Init /\ [][Next]_vars

\* main is one sequential thread and every adb call returns: a step that can
\* be taken is taken
FairSpec == Spec /\ WF_vars(Next)

\* main has ended: the return of line 109, the end of line 141, or an exception
Terminated == pc \in {"returned", "done", "crashed"}

(************************ find_server_nodes alone ***************************)
Long(n) == [i \in 1..n |-> "x"]

\* text attributes: blank, padded, stop words in both cases, the length limit
SelTexts == {
    <<>>, <<" ">>, s_A, <<" ">> \o s_A \o <<"\t">>,
    <<"O","K">>, <<"o","k">>, <<"o","k","a","y">>, s_Connect,
    <<" ","c","a","n","c","e","l"," ">>,
    <<"d","i","s","c","o","n","n","e","c","t">>, <<"R","e","f","r","e","s","h">>,
    <<"s","e","t","t","i","n","g","s">>, <<"B","a","c","k">>,
    <<"s","e","a","r","c","h">>,
    Long(MaxTextLen), Long(MaxTextLen + 1), <<" ">> \o Long(MaxTextLen) \o <<" ">> }

SelClickables == {s_true, s_false, <<"T","R","U","E">>}

b_padded == <<" ">> \o b_10_20_30_60 \o <<" ">>

SelElems ==
    {Node(c, t, b_padded) : c \in SelClickables, t \in SelTexts}
    \cup { [tag |-> "hierarchy", attrib |-> [rotation |-> <<"0">>]],
           [tag |-> "node", attrib |-> [text |-> s_A, bounds |-> b_padded]],
           [tag |-> "node", attrib |-> [text |-> Long(MaxTextLen), bounds |-> b_padded]],
           [tag |-> "node", attrib |-> [clickable |-> s_true, bounds |-> b_padded]],
           [tag |-> "node", attrib |-> [clickable |-> s_true, text |-> s_A]] }

SelInit ==
    /\ pc = "sel_call"
    /\ tree \in SeqsUpTo(SelElems, MaxSelTree)
    /\ csv = <<>>
    /\ adb_calls = <<>>
    /\ rc = 0
    /\ out = <<>>
    /\ nodes = <<>>
    /\ parses = <<>>
    /\ idx = 0
    /\ seen = {}
    /\ selected = <<>>
    /\ center = None
    /\ vip = None

\* nodes = find_server_nodes(tree)
sel_call ==
    /\ pc = "sel_call"
    /\ nodes' = find_server_nodes(tree)
    /\ pc' = "sel_ret"
    /\ UNCHANGED <<csv, adb_calls, rc, out, tree, parses, idx, seen, selected, center, vip>>

\* a plausible slip: the list of line 40 outlives the call (a module-level
\* list or a mutable default argument), so a second call appends to the first
sel_call_again_shared_list ==
    /\ pc = "sel_ret"
    /\ nodes' = iter_nodes(tree, nodes)
    /\ pc' = "sel_ret2"
    /\ UNCHANGED <<csv, adb_calls, rc, out, tree, parses, idx, seen, selected, center, vip>>

\* find_server_nodes(tree) called once more on the same tree: line 40 starts
\* from a new empty list and the tree is only read
sel_call_again ==
    /\ pc = "sel_ret"
    /\ nodes' = iter_nodes(tree, <<>>)
    /\ pc' = "sel_ret2"
    /\ UNCHANGED <<csv, adb_calls, rc, out, tree, parses, idx, seen, selected, center, vip>>

SelNext == sel_call \/ sel_call_again

SpecSelector == SelInit /\ [][SelNext]_vars

(**************************** get_vpn_ip alone ******************************)
l_hdr_WG == <<"4",":"," ","W","G","0",":"," ","<","U","P",">">>
l_hdr_rmnet ==
    <<"5",":"," ","r","m","n","e","t","@","p","p","p","0",":"," ","<","U","P",">">>
l_hdr_tap_inet ==
    <<"6",":"," ","t","a","p","1",":"," ","i","n","e","t"," ","1",".","1",".","1",".","1","/","8">>
l_inet6 == <<" "," ","i","n","e","t","6"," ","f","e","8","0",":",":","1","/","6","4">>
l_link == <<" "," ","l","i","n","k","/","e","t","h","e","r">>

ExtLines == {
    l_hdr_lo, l_hdr_wlan, l_hdr_tun, l_hdr_WG, l_hdr_rmnet, l_hdr_tap_inet,
    l_inet_127, l_inet_10, l_inet6, l_link }

ExtListings == {Join(ls) : ls \in SeqsUpTo(ExtLines, MaxLines)}

ExtInit ==
    /\ pc = "ext_call"
    /\ out \in ExtListings
    /\ rc \in ExitCodes
    /\ csv = <<>>
    /\ adb_calls = <<cmd_ip_addr>>
    /\ tree = <<>>
    /\ nodes = <<>>
    /\ parses = <<>>
    /\ idx = 0
    /\ seen = {}
    /\ selected = <<>>
    /\ center = None
    /\ vip = None

\* vip = get_vpn_ip(), adb having returned (out, rc)
ext_call ==
    /\ pc = "ext_call"
    /\ vip' = get_vpn_ip(out, rc)
    /\ pc' = "ext_ret"
    /\ UNCHANGED <<csv, adb_calls, rc, out, tree, nodes, parses, idx, seen, selected, center>>

SpecExtractor == ExtInit /\ [][ext_call]_vars

(********************************* claims **********************************)
\* number of adb commands of one kind issued so far
Count(op) == Cardinality({i \in 1..Len(adb_calls) : adb_calls[i].op = op})

\* labels of the data rows of the log, in order
RowLabels == [i \in 1..(Len(csv) - 1) |-> csv[i + 1].server_label]

\* a bounds attribute with at least four runs of digits
Resolvable(b) == Len(findall_digits(b)) >= 4

\* item k of ns is the first one with its label
FirstOccurrence(ns, k) == \A j \in 1..(k - 1) : ns[j][1] # ns[k][1]

\* the items of ns that are the first with their label, in order
FirstOccurrences(ns) ==
    LET F[k \in 0..Len(ns)] ==
            IF k = 0 THEN <<>>
            ELSE IF FirstOccurrence(ns, k) THEN Append(F[k - 1], ns[k]) ELSE F[k - 1]
    IN  F[Len(ns)]

\* labels of the items of ns that are first with their label and resolvable
ProbedLabels(ns) ==
    LET F[k \in 0..Len(ns)] ==
            IF k = 0 THEN <<>>
            ELSE IF FirstOccurrence(ns, k) /\ Resolvable(ns[k][2])
                 THEN Append(F[k - 1], ns[k][1])
                 ELSE F[k - 1]
    IN  F[Len(ns)]

IsPrefix(a, b) == Len(a) <= Len(b) /\ SubSeq(b, 1, Len(a)) = a

FirstParseEmpty == Len(parses) >= 1 /\ parses[1].ok /\ parses[1].n = 0
FirstParseFound == Len(parses) >= 1 /\ parses[1].ok /\ parses[1].n >= 1

\* C1: an empty first parse is followed by exactly one swipe and exactly one
\* re-parse, after which no further swipe or parse happens whatever the second
\* parse returned; a first parse with candidates is followed by no swipe and
\* no re-parse; no run has more than one swipe or more than two parses.
C1_SingleCorrectiveScroll ==
    /\ Count("input swipe") <= 1
    /\ Len(parses) <= 2
    /\ FirstParseFound => Count("input swipe") = 0 /\ Len(parses) = 1
    /\ FirstParseEmpty /\ pc \notin {"swipe", "dump2"} =>
           Count("input swipe") = 1 /\ Len(parses) = 2
    /\ Len(parses) = 2 => pc \notin {"dump1", "swipe", "dump2"}

C1_Witness ==
    /\ pc = "done"
    /\ FirstParseEmpty
    /\ Len(parses) = 2 /\ parses[2].n >= 1
    /\ Count("input swipe") = 1

\* C2: the data rows of the log are, in order, the labels of the candidates
\* probed so far (at the end of the run: of all N probed candidates, one row
\* each), and every data row has note "ok" or "no_ip".
C2_RowsFollowCandidates ==
    /\ \A i \in 2..Len(csv) : csv[i].note \in {"ok", "no_ip"}
    /\ pc \in {"loop", "tap", "connect", "observe", "disconnect", "back", "done"} =>
           IsPrefix(RowLabels, ProbedLabels(nodes))
    /\ pc = "done" =>
           /\ RowLabels = ProbedLabels(nodes)
           /\ Count("input keyevent") = Len(RowLabels)

C2_Witness ==
    /\ pc = "done"
    /\ Len(csv) = 3
    /\ csv[2].server_label = nodes[1][1]
    /\ csv[3].server_label = nodes[2][1]
    /\ csv[2].server_label # csv[3].server_label

\* C3: the items that pass the selection (find_server_nodes, then the seen
\* test of main) never hold two items with one label, and at the end of the
\* loop they are the first occurrence of each label, in order of occurrence.
C3_DedupFirstOccurrence ==
    /\ \A i, j \in 1..Len(selected) : i # j => selected[i][1] # selected[j][1]
    /\ pc = "done" => selected = FirstOccurrences(nodes)

C3_Witness ==
    /\ pc = "done"
    /\ Len(nodes) = 2
    /\ nodes[1][1] = nodes[2][1]
    /\ nodes[1][2] # nodes[2][2]
    /\ selected = <<nodes[1]>>

\* s without its leading and trailing blanks
Trim(s) ==
    IF \A i \in 1..Len(s) : s[i] \in SpaceSet THEN <<>>
    ELSE LET a == CHOOSE i \in 1..Len(s) :
                      s[i] \notin SpaceSet /\ \A j \in 1..(i - 1) : s[j] \in SpaceSet
             b == CHOOSE i \in 1..Len(s) :
                      s[i] \notin SpaceSet /\ \A j \in (i + 1)..Len(s) : s[j] \in SpaceSet
         IN  SubSeq(s, a, b)

\* the selection rule as the claim states it
Kept(e) ==
    /\ e.tag = "node"
    /\ "clickable" \in DOMAIN e.attrib
    /\ "text" \in DOMAIN e.attrib
    /\ e.attrib.clickable = s_true
    /\ Len(Trim(e.attrib.text)) >= 1
    /\ Len(Trim(e.attrib.text)) <= MaxTextLen
    /\ \A w \in Stoplist : lower(Trim(e.attrib.text)) # w

KeptTexts(t) ==
    LET F[k \in 0..Len(t)] ==
            IF k = 0 THEN <<>>
            ELSE IF Kept(t[k]) THEN Append(F[k - 1], Trim(t[k].attrib.text)) ELSE F[k - 1]
    IN  F[Len(t)]

\* C4: find_server_nodes keeps an element iff its clickable attribute is
\* "true", its trimmed text has 1 to 40 characters and the lower-cased trimmed
\* text is no stop word; so every candidate has such a text, and an element
\* without the clickable or the text attribute is not kept.
C4_SelectionRule ==
    pc = "sel_ret" =>
        /\ [i \in 1..Len(nodes) |-> nodes[i][1]] = KeptTexts(tree)
        /\ \A i \in 1..Len(nodes) :
               /\ 1 <= Len(nodes[i][1])
               /\ Len(nodes[i][1]) <= MaxTextLen
               /\ lower(nodes[i][1]) \notin Stoplist

C4_Witness ==
    /\ pc = "sel_ret"
    /\ Len(tree) = 2
    /\ tree[1] = Node(s_true, <<"O","K">>, b_padded)
    /\ tree[2] = Node(s_true, <<" ">> \o Long(MaxTextLen) \o <<" ">>, b_padded)
    /\ nodes = <<<<Long(MaxTextLen), b_10_20_30_60>>>>

\* C5: a snapshot that does not parse on the first attempt does not end the
\* run (the run goes on to a fresh snapshot).
C5_FirstParseErrorRecovered == ~(Len(parses) = 1 /\ ~parses[1].ok /\ pc = "crashed")

\* the lines of a listing as get_vpn_ip reads them
ListingLines(o) == [i \in 1..Len(splitlines(o)) |-> strip(splitlines(o)[i])]

\* a header line "<index>: <name>: ..."
IsHeader(l) == m_iface(l) # None

\* an address line: no header line, and it holds "inet <ipv4>/<prefix>"
IsAddress(l) == ~IsHeader(l) /\ m_ip(l) # None

\* the name of the last header line before line i, None without one
CurName(ls, i) ==
    IF \E j \in 1..(i - 1) : IsHeader(ls[j])
    THEN m_iface(ls[CHOOSE j \in 1..(i - 1) :
                        IsHeader(ls[j]) /\ \A k \in (j + 1)..(i - 1) : ~IsHeader(ls[k])])
    ELSE None

\* name holds one of the tokens, whatever the case of its letters
HasToken(name) ==
    \E t \in VpnTokens : \E i \in 1..Len(name) :
        /\ i + Len(t) - 1 <= Len(name)
        /\ \A k \in 1..Len(t) : lower_ch(name[i + k - 1]) = t[k]

\* line i is an address line under a VPN-like interface name
Hit(ls, i) == IsAddress(ls[i]) /\ CurName(ls, i) # None /\ HasToken(CurName(ls, i))

\* C6: on a listing the command returned with status 0, get_vpn_ip returns
\* the name and the address of the first address line whose current interface
\* name (that of the last header line before it) holds one of the tokens tun,
\* tap, ppp, vpn, wg, utun in any case, and None when there is no such line;
\* a returned name always holds a token, and the lines after the first match
\* do not change the result.
C6_FirstVpnAddress ==
    pc = "ext_ret" /\ rc = 0 =>
        LET ls == ListingLines(out)
        IN  /\ IF \E i \in 1..Len(ls) : Hit(ls, i)
               THEN LET i0 == CHOOSE i \in 1..Len(ls) :
                                  Hit(ls, i) /\ \A j \in 1..(i - 1) : ~Hit(ls, j)
                    IN  /\ vip = <<CurName(ls, i0), m_ip(ls[i0])>>
                        /\ get_vpn_ip(Join(SubSeq(splitlines(out), 1, i0)), 0) = vip
               ELSE vip = None
            /\ vip # None => HasToken(vip[1])

C6_Witness ==
    /\ pc = "ext_ret"
    /\ rc = 0
    /\ out = Join(<<l_hdr_WG, l_inet_10, l_inet_127>>)
    /\ vip = <<<<"W","G","0">>, <<"1","0",".","8",".","0",".","2">>>>

\* re.findall(r'-?\d+', s) as integers: the integers written in s, signs kept
RECURSIVE SignedInts(_)
SignedInts(s) ==
    IF s = <<>> THEN <<>>
    ELSE LET neg == Head(s) = "-" /\ RunLen(s, 2, DigitSet, TRUE) >= 1
             from == IF neg THEN 2 ELSE 1
             n == RunLen(s, from, DigitSet, TRUE)
         IN  IF n = 0 THEN SignedInts(Tail(s))
             ELSE <<(IF neg THEN -1 ELSE 1) * int(SubSeq(s, from, from + n - 1))>>
                      \o SignedInts(SubSeq(s, from + n, Len(s)))

\* C7: for a bounds attribute that holds at least four integers (negative
\* ones included), the point tapped is ((x1+x2) div 2, (y1+y2) div 2) of the
\* first four integers x1, y1, x2, y2 written in it.
C7_CentroidOfFirstFourIntegers ==
    pc = "tap" =>
        LET v == SignedInts(nodes[idx][2])
        IN  Len(v) >= 4 => center = <<(v[1] + v[3]) \div 2, (v[2] + v[4]) \div 2>>

\* C8: at an item whose bounds hold fewer than four integers the resolver
\* returns no point and the loop goes to the next item in one step, without
\* any adb command and without a row.
C8_UnresolvableSkipped ==
    [][(/\ pc = "loop"
        /\ idx <= Len(nodes)
        /\ label \notin seen
        /\ Len(SignedInts(nodes[idx][2])) < 4)
       => (/\ center' = None
           /\ adb_calls' = adb_calls
           /\ csv' = csv
           /\ pc' = "loop"
           /\ idx' = idx + 1)]_vars

C8_Witness ==
    /\ pc = "done"
    /\ Len(nodes) = 2
    /\ nodes[1] = <<s_B, b_short>>
    /\ nodes[2] = <<s_A, b_10_20_30_60>>
    /\ RowLabels = <<s_A>>
    /\ Count("input tap") = 3

\* C9: when the interface-listing command returns a non-zero status, the
\* extractor returns None whatever the output is, the row of the candidate
\* has note "no_ip" and empty iface and ip, and the probe goes on with the
\* tap at the connect point and the back key.
C9_FailedListingIsNoIp ==
    [][/\ (pc = "observe" /\ rc' # 0) =>
           /\ vip' = None
           /\ csv' = Append(csv, [server_label |-> label, iface |-> <<>>,
                                  ip |-> <<>>, note |-> "no_ip"])
           /\ pc' = "disconnect"
       /\ pc = "disconnect" =>
           /\ adb_calls' = Append(adb_calls,
                  tap_coord(CONNECT_TAP_COORDS[1], CONNECT_TAP_COORDS[2]))
           /\ pc' = "back"
       /\ pc = "back" =>
           /\ adb_calls' = Append(adb_calls, cmd_back)
           /\ pc' = "loop"]_vars

C9_Witness ==
    /\ pc = "disconnect"
    /\ rc # 0
    /\ out = Join(<<l_hdr_lo, l_inet_127, l_hdr_tun, l_inet_10>>)
    /\ vip = None
    /\ csv[Len(csv)].note = "no_ip"

BothParsesEmpty ==
    Len(parses) = 2 /\ \A i \in 1..2 : parses[i].ok /\ parses[i].n = 0

\* C10: when the first parse and the re-parse both yield no candidate, main
\* returns (line 109) without an exception: the log holds the header row
\* only and no tap, interface-listing or back command was issued.
C10_NothingProbed ==
    /\ [](BothParsesEmpty =>
            /\ pc \in {"check", "returned"}
            /\ csv = <<Header>>
            /\ Count("input tap") = 0
            /\ Count("ip -4 addr show") = 0
            /\ Count("input keyevent") = 0)
    /\ [][BothParsesEmpty /\ pc = "check" => pc' = "returned"]_vars

C10_Witness ==
    /\ pc = "returned"
    /\ BothParsesEmpty
    /\ csv = <<Header>>
    /\ [i \in 1..Len(adb_calls) |-> adb_calls[i].op] =
           <<"uiautomator dump", "pull", "input swipe", "uiautomator dump", "pull">>

ProbedItems(ns) ==
    LET F[k \in 0..Len(ns)] ==
            IF k = 0 THEN <<>>
            ELSE IF FirstOccurrence(ns, k) /\ Resolvable(ns[k][2])
                 THEN Append(F[k - 1], ns[k])
                 ELSE F[k - 1]
    IN  F[Len(ns)]

\* the five adb commands of the probe of one item, the first tap at the point
\* the resolver returns for its bounds
ProbeCommands(item) ==
    <<tap_coord(bounds_center(item[2])[1], bounds_center(item[2])[2]),
      tap_coord(CONNECT_TAP_COORDS[1], CONNECT_TAP_COORDS[2]),
      cmd_ip_addr,
      tap_coord(CONNECT_TAP_COORDS[1], CONNECT_TAP_COORDS[2]),
      cmd_back>>

\* the commands of the probes of all items of a sequence, one after the other
AllProbeCommands(items) ==
    LET F[k \in 0..Len(items)] ==
            IF k = 0 THEN <<>> ELSE F[k - 1] \o ProbeCommands(items[k])
    IN  F[Len(items)]

\* the adb commands issued after the last pull of a snapshot
CommandsAfterDumps ==
    LET pulls == {i \in 1..Len(adb_calls) : adb_calls[i] = cmd_pull}
        last == IF pulls = {} THEN 0 ELSE CHOOSE i \in pulls : \A j \in pulls : j <= i
    IN  SubSeq(adb_calls, last + 1, Len(adb_calls))

InLoop == pc \in {"loop", "tap", "connect", "observe", "disconnect", "back", "done"}

C13_LogAppendOnly ==
    /\ [](adb_calls # <<>> => Len(csv) >= 1 /\ Head(csv) = Header)
    /\ [][\/ csv' = csv
          \/ /\ pc = "start"
             /\ csv = <<>>
             /\ adb_calls = <<>>
             /\ csv' = <<Header>>
          \/ /\ Len(csv) >= 1
             /\ Len(csv') = Len(csv) + 1
             /\ SubSeq(csv', 1, Len(csv)) = csv
             /\ csv'[Len(csv')].note \in {"ok", "no_ip"}]_vars

C13_Witness ==
    /\ pc = "done"
    /\ Len(csv) = 3
    /\ Head(csv) = Header
    /\ csv[2].note = "ok"
    /\ csv[3].note = "no_ip"

\* everything of the state but the return code of the last adb call
StateButRc == <<pc, csv, adb_calls, out, tree, nodes, parses, idx, seen, selected, center, vip>>

\* the state, but for rc, that follows a swipe, tap or back step: the one
\* command of the step is appended and main moves on, whatever the step returns
AfterInputCall(cmd, next_pc, next_idx) ==
    <<next_pc, csv, Append(adb_calls, cmd), out, tree, nodes, parses, next_idx,
      seen, selected, center, vip>>

\* C14: the return code of a swipe, tap or back command is ignored and the
\* command is not retried: such a step issues its command exactly once and
\* leaves main, the commands issued and the log in a state that does not
\* depend on the code returned, so two runs that differ only in these codes
\* issue the same commands and write the same rows.
C14_InputExitCodesIgnored ==
    [][/\ pc = "swipe" => StateButRc' = AfterInputCall(swipe, "dump2", idx)
       /\ pc = "tap" =>
              StateButRc' = AfterInputCall(tap_coord(center[1], center[2]), "connect", idx)
       /\ pc = "connect" =>
              StateButRc' = AfterInputCall(
                  tap_coord(CONNECT_TAP_COORDS[1], CONNECT_TAP_COORDS[2]), "observe", idx)
       /\ pc = "disconnect" =>
              StateButRc' = AfterInputCall(
                  tap_coord(CONNECT_TAP_COORDS[1], CONNECT_TAP_COORDS[2]), "back", idx)
       /\ pc = "back" => StateButRc' = AfterInputCall(cmd_back, "loop", idx + 1)]_vars

\* a run that went on to its second candidate after a back key that failed
C14_Witness ==
    /\ pc = "loop"
    /\ rc # 0
    /\ idx = 2
    /\ Len(nodes) = 2
    /\ Len(csv) = 2
    /\ adb_calls[Len(adb_calls)] = cmd_back

\* the labels of the items of ns
LabelsOf(ns) == {ns[k][1] : k \in 1..Len(ns)}

\* the bounds of the first item of ns that carries label l
FirstBounds(ns, l) ==
    ns[CHOOSE k \in 1..Len(ns) : ns[k][1] = l /\ FirstOccurrence(ns, k)][2]

\* C15: at the end of the loop a label has a row iff the first selected
\* element that carries it has resolvable bounds: when that first element
\* does not resolve, the label is already in seen, a later element with the
\* same label and resolvable bounds is dropped and the label gets no row;
\* and no label is ever in two rows.
C15_RowIffFirstOccurrenceResolves ==
    /\ \A i, j \in 1..Len(RowLabels) : i # j => RowLabels[i] # RowLabels[j]
    /\ pc = "done" =>
           \A l \in LabelsOf(nodes) :
               (\E i \in 1..Len(RowLabels) : RowLabels[i] = l)
                   <=> Resolvable(FirstBounds(nodes, l))

C15_Witness ==
    /\ pc = "done"
    /\ nodes = <<<<s_A, <<>>>>, <<s_A, b_10_20_30_60>>>>
    /\ RowLabels = <<>>
    /\ Count("input tap") = 0

\* C16: in every state of the log, a data row has note "ok" iff its iface and
\* ip fields are both non-empty and the iface holds a token of the VPN-name
\* pattern, and note "no_ip" iff both fields are empty; no row has exactly
\* one of the two fields filled.
C16_NoteMatchesFields ==
    \A i \in 2..Len(csv) :
        /\ csv[i].note = "ok" <=>
               csv[i].iface # <<>> /\ csv[i].ip # <<>> /\ HasToken(csv[i].iface)
        /\ csv[i].note = "no_ip" <=> csv[i].iface = <<>> /\ csv[i].ip = <<>>
        /\ (csv[i].iface = <<>>) <=> (csv[i].ip = <<>>)

C16_Witness ==
    /\ Len(csv) = 3
    /\ csv[2].note = "no_ip"
    /\ csv[3].note = "ok"
    /\ csv[3].iface = <<"t","u","n","0">>
    /\ csv[3].ip = <<"1","0",".","8",".","0",".","2">>

\* C17: with adb calls that return, every run ends; a run whose snapshots
\* parsed ends after at most two parses and at most one swipe, and with five
\* adb commands for each probed candidate: three taps, one interface listing
\* and one back key.
C17_Terminates ==
    /\ <>Terminated
    /\ [](pc \in {"returned", "done"} =>
            /\ Len(parses) <= 2
            /\ Count("input swipe") <= 1
            /\ Count("input tap") = 3 * Len(RowLabels)
            /\ Count("ip -4 addr show") = Len(RowLabels)
            /\ Count("input keyevent") = Len(RowLabels)
            /\ Len(CommandsAfterDumps) = 5 * Len(RowLabels)
            /\ Len(RowLabels) = Len(ProbedItems(nodes))
            /\ Len(adb_calls) =
                   (2 * Len(parses)) + Count("input swipe") + (5 * Len(RowLabels)))

C17_Witness ==
    /\ pc = "done"
    /\ Len(parses) = 2
    /\ Count("input swipe") = 1
    /\ Len(RowLabels) = 2
    /\ Len(adb_calls) = 15

====
